---------------------------- MODULE Spec2Model ----------------------------
(***************************************************************************)
(* A model of beetsplug/guess_media.py: the EAC/XLD log TOC parser, the    *)
(* TOC string builder, the log-file classifier, the per-directory cache    *)
(* `_matches` and the album_distance scoring.                              *)
(*                                                                         *)
(* Text is modelled as sequences of one-character strings, so that the     *)
(* regular expressions, int(), str(), " ".join, lower(), upper(),          *)
(* endswith and `in` are computed on characters.  A line is modelled       *)
(* without its trailing newline: both patterns end in \s*$, which absorbs  *)
(* it, and readline() returns '' at end of file, modelled as EofLine.      *)
(***************************************************************************)
EXTENDS Integers, Sequences, FiniteSets, TLC

\* ------------------------------------------------------------------------
\* Bounds of the model
\* ------------------------------------------------------------------------

\* longest log-file body (lines after the first line) given to the parser
MaxLines == 5

\* the count of os.walk calls for one directory stops at MaxWalks
MaxWalks == 3

\* ------------------------------------------------------------------------
\* Characters and text
\* ------------------------------------------------------------------------

DigitChars == <<"0","1","2","3","4","5","6","7","8","9">>

Digits == {DigitChars[i] : i \in 1..10}

\* the characters of [0-9:.]
TimeChars == Digits \cup {":", "."}

\* the characters of \s that occur inside a line
Whitespace == {" "}

DigitVal(c) == (CHOOSE i \in 1..10 : DigitChars[i] = c) - 1

\* int(s) for a string of decimal digits
RECURSIVE int(_)
int(s) ==
    IF s = <<>> THEN 0
    ELSE 10 * int(SubSeq(s, 1, Len(s) - 1)) + DigitVal(s[Len(s)])

\* str(n) for a natural number
RECURSIVE str(_)
str(n) ==
    IF n < 10 THEN <<DigitChars[n + 1]>>
    ELSE str(n \div 10) \o <<DigitChars[(n % 10) + 1]>>

\* " ".join(strs)
RECURSIVE Join(_)
Join(strs) ==
    IF strs = <<>> THEN <<>>
    ELSE IF Len(strs) = 1 THEN strs[1]
    ELSE strs[1] \o <<" ">> \o Join(Tail(strs))

\* the first index >= i of s whose character is not in class (Len(s)+1 if none)
RECURSIVE SpanEnd(_, _, _)
SpanEnd(s, i, class) ==
    IF i <= Len(s) /\ s[i] \in class THEN SpanEnd(s, i + 1, class) ELSE i

LowerLetters == <<"a","b","c","d","e","f","g","h","i","j","k","l","m","n","o","p","q","r","s","t","u","v","w","x","y","z">>

UpperLetters == <<"A","B","C","D","E","F","G","H","I","J","K","L","M","N","O","P","Q","R","S","T","U","V","W","X","Y","Z">>

\* s.lower()
lower(s) ==
    [i \in 1..Len(s) |->
        IF \E k \in 1..26 : UpperLetters[k] = s[i]
        THEN LowerLetters[CHOOSE k \in 1..26 : UpperLetters[k] = s[i]]
        ELSE s[i]]

\* s.upper()
upper(s) ==
    [i \in 1..Len(s) |->
        IF \E k \in 1..26 : LowerLetters[k] = s[i]
        THEN UpperLetters[CHOOSE k \in 1..26 : LowerLetters[k] = s[i]]
        ELSE s[i]]

\* s.startswith(prefix)
StartsWith(s, prefix) ==
    Len(s) >= Len(prefix) /\ SubSeq(s, 1, Len(prefix)) = prefix

\* s.endswith(suffix)
endswith(s, suffix) ==
    Len(s) >= Len(suffix) /\ SubSeq(s, Len(s) - Len(suffix) + 1, Len(s)) = suffix

\* sub in s
Contains(sub, s) ==
    \E i \in 1..(Len(s) - Len(sub) + 1) : SubSeq(s, i, i + Len(sub) - 1) = sub

\* ------------------------------------------------------------------------
\* The lines a log body is made of
\* ------------------------------------------------------------------------

HeaderLine == <<"T","r","a","c","k"," ","|"," ","S","t","a","r","t"," ","|"," ","L","e","n","g","t","h"," ","|"," ","S","t","a","r","t"," ","s","e","c","t","o","r"," ","|"," ","E","n","d"," ","s","e","c","t","o","r">>

RuleLine == <<"-","-","-","-","-","-","-","-">>

Record1 == <<" ","1"," ","|"," ","0",":","0","0",".","0","0"," ","|"," ","4",":","0","0",".","0","0"," ","|"," ","0"," ","|"," ","2","9","9">>

Record2 == <<"0","2","|","4",":","0","0",".","0","0","|","4",":","0","0",".","0","0","|","3","0","0","|","5","9","9">>

Record3 == <<"3"," ","|"," ","8",":","0","0",".","0","0"," ","|"," ","5",":","2","6",".","0","1"," ","|"," ","6","0","0"," ","|"," ","1","0","0","0">>

\* what readline() returns at end of file, and the id that stands for it
EofLine == <<>>

EofLineId == 0

\* the text of each line a body is drawn from
LineText == <<HeaderLine, RuleLine, Record1, Record2, Record3>>

LineIds == 1..Len(LineText)

\* ------------------------------------------------------------------------
\* The two regular expressions of _filter_toc_entries
\* ------------------------------------------------------------------------

\* the pipes of s that have whitespace on both sides
SpacedPipes(s) ==
    {i \in 2..(Len(s) - 1) :
        s[i] = "|" /\ s[i - 1] \in Whitespace /\ s[i + 1] \in Whitespace}

\* re.match of the TOC table header pattern
\*   \s* .+\s+ \| \s+.+\s+ \| \s+.+\s+ \| \s+.+\s+ \| \s+.+\s*$
\* .+ takes any characters, pipes included, so the line matches iff it has
\* four spaced pipes with a character before the whitespace of the first,
\* a character between the whitespace of two neighbours, and a character
\* after the whitespace of the last.
MatchesHeader(s) ==
    \E p1, p2, p3, p4 \in SpacedPipes(s) :
        /\ p1 >= 3
        /\ p2 - p1 >= 4
        /\ p3 - p2 >= 4
        /\ p4 - p3 >= 4
        /\ Len(s) >= p4 + 2

NoMatch ==
    [matched |-> FALSE, num |-> <<>>, start_time |-> <<>>,
     length_time |-> <<>>, start_sector |-> <<>>, end_sector |-> <<>>]

\* re.match of the record pattern
\*   ^\s*(\d+)\s*\|\s*([0-9:.]+)\s*\|\s*([0-9:.]+)\s*\|\s*(\d+)\s*\|\s*(\d+)\s*$
\* Neighbouring pieces use disjoint character classes, so the leftmost
\* longest scan decides the match.
MatchRecord(s) ==
    LET n0 == SpanEnd(s, 1, Whitespace)
        n1 == SpanEnd(s, n0, Digits)
        b1 == SpanEnd(s, n1, Whitespace)
        s0 == SpanEnd(s, b1 + 1, Whitespace)
        s1 == SpanEnd(s, s0, TimeChars)
        b2 == SpanEnd(s, s1, Whitespace)
        l0 == SpanEnd(s, b2 + 1, Whitespace)
        l1 == SpanEnd(s, l0, TimeChars)
        b3 == SpanEnd(s, l1, Whitespace)
        t0 == SpanEnd(s, b3 + 1, Whitespace)
        t1 == SpanEnd(s, t0, Digits)
        b4 == SpanEnd(s, t1, Whitespace)
        e0 == SpanEnd(s, b4 + 1, Whitespace)
        e1 == SpanEnd(s, e0, Digits)
        z  == SpanEnd(s, e1, Whitespace)
        IsPipe(i) == i <= Len(s) /\ s[i] = "|"
    IN  IF /\ n1 > n0 /\ IsPipe(b1)
           /\ s1 > s0 /\ IsPipe(b2)
           /\ l1 > l0 /\ IsPipe(b3)
           /\ t1 > t0 /\ IsPipe(b4)
           /\ e1 > e0 /\ z = Len(s) + 1
        THEN [matched |-> TRUE,
              num |-> SubSeq(s, n0, n1 - 1),
              start_time |-> SubSeq(s, s0, s1 - 1),
              length_time |-> SubSeq(s, l0, l1 - 1),
              start_sector |-> SubSeq(s, t0, t1 - 1),
              end_sector |-> SubSeq(s, e0, e1 - 1)]
        ELSE NoMatch

TextOf(line) == IF line = EofLineId THEN EofLine ELSE LineText[line]

\* both patterns on every line of LineText, and on the '' of end of file
HeaderTable == [i \in LineIds \cup {EofLineId} |-> MatchesHeader(TextOf(i))]

RecordTable == [i \in LineIds \cup {EofLineId} |-> MatchRecord(TextOf(i))]

\* m.groupdict()
GroupDict(m) ==
    [num |-> m.num, start_time |-> m.start_time, length_time |-> m.length_time,
     start_sector |-> m.start_sector, end_sector |-> m.end_sector]

\* file_handle.readline(): the line and the new position
Readline(body, p) ==
    IF p < Len(body)
    THEN [line |-> body[p + 1], pos |-> p + 1, eof |-> FALSE]
    ELSE [line |-> EofLineId, pos |-> p, eof |-> TRUE]

IsHeader(line) == HeaderTable[line]

RecordOf(line) == RecordTable[line]

\* ------------------------------------------------------------------------
\* _get_toc_string_from_log: the TOC string of the entries
\* ------------------------------------------------------------------------

PREGAP == 150

TocString(text) == [ret |-> "toc", text |-> text]

TocNone == [ret |-> "none", text |-> <<>>]

TocRaise == [ret |-> "raise", text |-> <<>>]

\* TocBody with the lead-out taken as the last end sector plus PREGAP alone
TocBody_LeadoutWithoutOne(entries) ==
    LET num_entries == Len(entries)
        tracknums == [i \in 1..num_entries |-> int(entries[i].num)]
    IN  IF [x \in 1..num_entries |-> x] # tracknums
        THEN TocNone
        ELSE IF num_entries = 0
        THEN TocRaise
        ELSE LET leadout_offset == int(entries[num_entries].end_sector) + PREGAP
                 offsets == [i \in 1..num_entries |->
                                int(entries[i].start_sector) + PREGAP]
                 toc_numbers == <<1, num_entries, leadout_offset>> \o offsets
             IN  TocString(Join([i \in 1..Len(toc_numbers) |-> str(toc_numbers[i])]))

\* the body of the try block, once list(...) has the entries: an exception
\* it raises is the outcome "raise"
TocBody(entries) ==
    LET num_entries == Len(entries)
        tracknums == [i \in 1..num_entries |-> int(entries[i].num)]
    IN  IF [x \in 1..num_entries |-> x] # tracknums
        THEN TocNone
        ELSE IF num_entries = 0
        THEN TocRaise \* entries[-1] of an empty list: IndexError
        ELSE LET leadout_offset == int(entries[num_entries].end_sector) + PREGAP + 1
                 offsets == [i \in 1..num_entries |->
                                int(entries[i].start_sector) + PREGAP]
                 toc_numbers == <<1, num_entries, leadout_offset>> \o offsets
             IN  TocString(Join([i \in 1..Len(toc_numbers) |-> str(toc_numbers[i])]))

\* except Exception: ...; return None
TocExcept(r) == IF r.ret = "raise" THEN TocNone ELSE r

\* TocFromEntries without the except clause: the exception reaches the caller
TocFromEntries_NoExcept(entries) == TocBody(entries)

TocFromEntries(entries) == TocExcept(TocBody(entries))

\* ------------------------------------------------------------------------
\* _get_toc_string_from_log as a function of the body it reads
\* ------------------------------------------------------------------------

\* the first loop of _filter_toc_entries from position p: the position after
\* the header and the line that follows it, or found = FALSE when readline()
\* returns '' before a header: the loop then reads '' for ever
RECURSIVE HeaderLoop(_, _)
HeaderLoop(body, p) ==
    LET r == Readline(body, p)
    IN  IF IsHeader(r.line)
        THEN [found |-> TRUE, pos |-> Readline(body, r.pos).pos]
        ELSE IF r.eof
        THEN [found |-> FALSE, pos |-> p]
        ELSE HeaderLoop(body, r.pos)

\* the second loop of _filter_toc_entries from position p: the entries yielded
RECURSIVE RecordLoop(_, _)
RecordLoop(body, p) ==
    LET r == Readline(body, p)
        m == RecordOf(r.line)
    IN  IF m.matched
        THEN <<GroupDict(m)>> \o RecordLoop(body, r.pos)
        ELSE <<>>

\* list(_filter_toc_entries(file_handle)); hang: the call never returns
AfterHeader(body, h) ==
    IF h.found
    THEN [hang |-> FALSE, entries |-> RecordLoop(body, h.pos)]
    ELSE [hang |-> TRUE, entries |-> <<>>]

_filter_toc_entries(body) == AfterHeader(body, HeaderLoop(body, 0))

\* the rest of _get_toc_string_from_log, given what list(...) did
AfterEntries(g) ==
    IF g.hang
    THEN [hang |-> TRUE, toc |-> TocNone]
    ELSE [hang |-> FALSE, toc |-> TocFromEntries(g.entries)]

_get_toc_string_from_log(body) == AfterEntries(_filter_toc_entries(body))

\* ------------------------------------------------------------------------
\* Log files, the metadata service, _parse_logfile
\* ------------------------------------------------------------------------

\* re.compile(r'Exact Audio Copy*') and re.compile(r'X Lossless Decoder*')
EacRegex == <<"E","x","a","c","t"," ","A","u","d","i","o"," ","C","o","p","y","*">>

XldRegex == <<"X"," ","L","o","s","s","l","e","s","s"," ","D","e","c","o","d","e","r","*">>

\* regex.match(line) for a pattern of literal characters ending in c*: the
\* star binds to the last character alone, so c* matches the empty string too
\* and the pattern matches every line that starts with the literals before c
StarMatch(pattern, line) ==
    StartsWith(line, SubSeq(pattern, 1, Len(pattern) - 2))

LogExt == <<".","l","o","g">>

EacFirstLine == <<"E","x","a","c","t"," ","A","u","d","i","o"," ","C","o","p","y"," ","V","1",".","0">>

XldFirstLine == <<"X"," ","L","o","s","s","l","e","s","s"," ","D","e","c","o","d","e","r"," ","v","e","r","s","i","o","n"," ","2">>

CopFirstLine == <<"E","x","a","c","t"," ","A","u","d","i","o"," ","C","o","p","-","o","u","t">>

OtherFirstLine == <<"f","o","o","b","a","r","2","0","0","0"," ","l","o","g">>

NameLower == <<"r","i","p",".","l","o","g">>

NameUpper == <<"R","I","P",".","L","O","G">>

NameTxt == <<"r","i","p",".","t","x","t">>

\* a table of three tracks, of two tracks, a table whose tracks are 1 and 3,
\* and a status report with no table
BodyThree == <<1, 2, 3, 4, 5, 2>>

BodyTwo == <<2, 1, 2, 3, 4>>

BodyGap == <<1, 2, 3, 5>>

BodyNoTable == <<2, 2>>

\* A file: its name, the encoding its bytes are valid in (binary: neither
\* UTF-8 nor UTF-16), its first line and the lines after it, and what the
\* metadata service answers for its TOC: releases found, an empty
\* release-list, or an error.
File(name, encoding, first, body, service, ids) ==
    [name |-> name, encoding |-> encoding, first |-> first, body |-> body,
     service |-> service, ids |-> ids]

FileTable ==
    [eac       |-> File(NameLower, "utf-8", EacFirstLine, BodyThree, "found", {"rel-1"}),
     xld       |-> File(NameUpper, "utf-16", XldFirstLine, BodyTwo, "found", {"rel-2"}),
     unmatched |-> File(NameLower, "utf-8", EacFirstLine, BodyThree, "empty", {}),
     mberror   |-> File(NameLower, "utf-8", XldFirstLine, BodyTwo, "error", {}),
     cop       |-> File(NameLower, "utf-8", CopFirstLine, BodyTwo, "found", {"rel-2"}),
     other     |-> File(NameLower, "utf-8", OtherFirstLine, BodyThree, "found", {"rel-1"}),
     binary    |-> File(NameLower, "binary", EacFirstLine, BodyThree, "found", {"rel-1"}),
     gap       |-> File(NameLower, "utf-8", EacFirstLine, BodyGap, "found", {"rel-1"}),
     notable   |-> File(NameLower, "utf-16", EacFirstLine, BodyNoTable, "found", {"rel-1"}),
     txt       |-> File(NameTxt, "utf-8", EacFirstLine, BodyThree, "found", {"rel-1"})]

FileIds == DOMAIN FileTable

\* What a call returns or does: ret is "set" (a set of ids), "list" (the
\* empty list), "none" (None), "raise" (an exception leaves the call) or
\* "hang" (the call never returns); tocCalled and lookupCalled tell whether
\* _get_toc_string_from_log and _get_releases_from_toc were called.
Outcome(ret, ids, exc, tocCalled, lookupCalled) ==
    [ret |-> ret, ids |-> ids, exc |-> exc,
     tocCalled |-> tocCalled, lookupCalled |-> lookupCalled]

\* _get_releases_from_toc: the list of ids, None ("none") when the
\* release-list is empty, or the service's exception
_get_releases_from_toc(f) ==
    CASE f.service = "found" -> [ret |-> "list", ids |-> f.ids]
      [] f.service = "empty" -> [ret |-> "none", ids |-> {}]
      [] f.service = "error" -> [ret |-> "raise", ids |-> {}]

\* ids = set(_get_releases_from_toc(toc)) if toc else [], given what
\* _get_toc_string_from_log did
IdsOfToc(f, t) ==
    IF t.hang
    THEN Outcome("hang", {}, "", TRUE, FALSE)
    ELSE IF t.toc.ret = "toc"
    THEN LET r == _get_releases_from_toc(f)
         IN  CASE r.ret = "list" -> Outcome("set", r.ids, "", TRUE, TRUE)
               \* set(None)
               [] r.ret = "none" -> Outcome("raise", {}, "TypeError", TRUE, TRUE)
               [] r.ret = "raise" -> Outcome("raise", {}, "WebServiceError", TRUE, TRUE)
    ELSE Outcome("list", {}, "", TRUE, FALSE)

\* _read_and_match on the decoded text of f
_read_and_match(f) ==
    IF StarMatch(EacRegex, f.first) \/ StarMatch(XldRegex, f.first)
    THEN IdsOfToc(f, _get_toc_string_from_log(f.body))
    ELSE Outcome("none", {}, "", FALSE, FALSE)

\* with io.open(filename, encoding=encoding) as f: return _read_and_match(f)
\* the first readline() raises UnicodeDecodeError on bytes of another encoding
OpenAndMatch(f, encoding) ==
    IF f.encoding = encoding
    THEN _read_and_match(f)
    ELSE Outcome("raise", {}, "UnicodeDecodeError", FALSE, FALSE)

\* the inner try of _parse_logfile: UTF-8, and UTF-16 on a UnicodeDecodeError
InnerExcept(f, r) ==
    IF r.ret = "raise" /\ r.exc = "UnicodeDecodeError"
    THEN OpenAndMatch(f, "utf-16")
    ELSE r

InnerTry(f) == InnerExcept(f, OpenAndMatch(f, "utf-8"))

\* except Exception: pass; return None
OuterExcept(r) ==
    IF r.ret = "raise"
    THEN Outcome("none", {}, r.exc, r.tocCalled, r.lookupCalled)
    ELSE r

\* _parse_logfile without the outer try: the exception leaves the call
_parse_logfile_NoOuterExcept(f) == InnerTry(f)

\* _parse_logfile: the outer except turns every exception into None; the
\* exception it swallowed stays in exc
_parse_logfile(f) == OuterExcept(InnerTry(f))

\* filename.lower().endswith('.log') for each file
LogNameTable == [id \in FileIds |-> endswith(lower(FileTable[id].name), LogExt)]

ParseTable == [id \in FileIds |-> _parse_logfile(FileTable[id])]

\* ------------------------------------------------------------------------
\* _process_items
\* ------------------------------------------------------------------------

Dirs == {"album", "album/cd2"}

\* os.path.dirname
dirname(path) == path[1]

\* the directories os.walk(path) visits, top down: "album/cd2" is in "album"
WalkDirs(path) == IF path = "album" THEN <<"album", "album/cd2">> ELSE <<path>>

MatchData(has_log, ids) == [has_log |-> has_log, ids |-> ids]

\* not log_ids: None, the empty list and the empty set are false
Falsy(r) == r.ret = "none" \/ r.ret = "list" \/ (r.ret = "set" /\ r.ids = {})

\* the loop over the filenames of one directory, from file i on; hang: a
\* call never returned, raised: an exception left a call, and leaves the loop
RECURSIVE FileLoop(_, _, _)
\* the body of the loop for a .log file, once _parse_logfile has given log_ids
FileStep(files, i, acc, log_ids, seen) ==
    IF log_ids.ret = "hang"
    THEN [acc EXCEPT !.hang = TRUE, !.parsed = seen]
    ELSE IF log_ids.ret = "raise"
    THEN [acc EXCEPT !.raised = TRUE, !.parsed = seen]
    ELSE IF Falsy(log_ids)
    THEN FileLoop(files, i + 1, [acc EXCEPT !.parsed = seen])
    ELSE FileLoop(files, i + 1,
             [hang |-> FALSE, raised |-> FALSE, has_log |-> TRUE,
              ids |-> acc.ids \cup log_ids.ids, parsed |-> seen])

FileLoop(files, i, acc) ==
    IF i > Len(files) THEN acc
    ELSE IF ~LogNameTable[files[i]]
    THEN FileLoop(files, i + 1, acc)
    ELSE FileStep(files, i, acc, ParseTable[files[i]],
                  Append(acc.parsed, [file |-> files[i], out |-> ParseTable[files[i]]]))

\* the loop over os.walk(path), from the k-th directory on
RECURSIVE WalkLoop(_, _, _, _)
WalkLoop(files, dirs, k, acc) ==
    IF k > Len(dirs) \/ acc.hang \/ acc.raised THEN acc
    ELSE WalkLoop(files, dirs, k + 1, FileLoop(files[dirs[k]], 1, acc))

Walk(files, path) ==
    WalkLoop(files, WalkDirs(path), 1,
             [hang |-> FALSE, raised |-> FALSE, has_log |-> FALSE, ids |-> {},
              parsed |-> <<>>])

\* a lookup that never finds the path
Cached_Never(matches, path) == FALSE

\* path not in _matches, negated
Cached(matches, path) == path \in DOMAIN matches

\* d[key] = value
DictSet(d, key, value) ==
    [k \in DOMAIN d \cup {key} |-> IF k = key THEN value ELSE d[k]]

\* the empty dict
EmptyDict == [k \in {} |-> MatchData(FALSE, {})]

\* what _process_items returns: None, or a set of ids
None == [present |-> FALSE, ids |-> {}]

IdSet(ids) == [present |-> TRUE, ids |-> ids]

\* the loop of _process_items over paths, taken in the given order, from its
\* i-th path on; st carries _matches, the locals ids and log_found, and the
\* record of the os.walk and _parse_logfile calls made
RECURSIVE PathLoop(_, _, _, _)
\* the body of the loop for one path: miss tells that path is not in
\* _matches, w is what the walk of path does
PathStep(files, order, i, st, path, miss, w) ==
    LET m1 == IF miss /\ ~w.hang /\ ~w.raised
              THEN DictSet(st.matches, path, MatchData(w.has_log, w.ids))
              ELSE st.matches
        walks1 == IF miss /\ st.walks[path] < MaxWalks
                  THEN [st.walks EXCEPT ![path] = @ + 1]
                  ELSE st.walks
        parsed1 == IF miss
                   THEN [st.parsed EXCEPT ![path] = @ \o w.parsed]
                   ELSE st.parsed
    IN  IF miss /\ (w.hang \/ w.raised)
        THEN [st EXCEPT !.hang = w.hang, !.raised = w.raised,
                        !.walks = walks1, !.parsed = parsed1]
        ELSE PathLoop(files, order, i + 1,
               [hang |-> FALSE, raised |-> FALSE, matches |-> m1, walks |-> walks1,
                parsed |-> parsed1,
                ids |-> IF m1[path].has_log
                        THEN st.ids \cup m1[path].ids ELSE st.ids,
                log_found |-> st.log_found \/ m1[path].has_log])

PathLoop(files, order, i, st) ==
    IF i > Len(order) \/ st.hang \/ st.raised THEN st
    ELSE PathStep(files, order, i, st, order[i], ~Cached(st.matches, order[i]),
                  Walk(files, order[i]))

\* paths = set(map(lambda item: os.path.dirname(item.path), items))
PathsOf(items) == {dirname(item.path) : item \in items}

\* the orders in which `for path in paths` may take the paths of a set
Orders(paths) ==
    {o \in UNION {[1..n -> paths] : n \in {Cardinality(paths)}} :
        \A a, b \in 1..Len(o) : a # b => o[a] # o[b]}

\* _process_items(items) with the paths taken in the given order: the new
\* _matches, and ret, what it returns when it neither hangs nor raises
ProcessResult(st) ==
    [hang |-> st.hang, raised |-> st.raised,
     matches |-> st.matches, walks |-> st.walks,
     parsed |-> st.parsed,
     ret |-> IF st.log_found THEN IdSet(st.ids) ELSE None]

_process_items(files, order, matches, wk, prs) ==
    ProcessResult(PathLoop(files, order, 1,
                 [hang |-> FALSE, raised |-> FALSE, matches |-> matches,
                  walks |-> wk, parsed |-> prs, ids |-> {}, log_found |-> FALSE]))

\* ------------------------------------------------------------------------
\* album_distance: the scoring
\* ------------------------------------------------------------------------

max(S) == CHOOSE x \in S : \A y \in S : y <= x

\* hooks.Distance(): the penalties added under each key
NewDistance == [media |-> <<>>, album_id |-> <<>>]

\* dist.add(key, value)
DistAdd(dist, key, value) == [dist EXCEPT ![key] = Append(@, value)]

CD == <<"C","D">>

\* Score with the second media penalty given whatever the audio says
Score_RuleBIgnoresAudio(items, album_info, config, release_ids) ==
    LET has_log == release_ids.present
        bitdepths == {item.bitdepth : item \in items}
        samplerates == {item.samplerate : item \in items}
        is_not_cd == max(bitdepths) > 16 \/ max(samplerates) # 44100
        candidate_media_is_cd ==
            IF album_info.media # <<>>
            THEN Contains(CD, upper(album_info.media)) ELSE FALSE
        d0 == NewDistance
        d1 == IF is_not_cd /\ candidate_media_is_cd
              THEN DistAdd(d0, "media", config.media_weight) ELSE d0
        d2 == IF has_log /\ ~candidate_media_is_cd
              THEN DistAdd(d1, "media", config.media_weight) ELSE d1
        d3 == IF release_ids.present /\ album_info.album_id \notin release_ids.ids
              THEN DistAdd(d2, "album_id", config.album_id_weight) ELSE d2
    IN  d3

\* Score with the album_id penalty given without asking whether release_ids
\* is None
Score_RuleCOnNone(items, album_info, config, release_ids) ==
    LET has_log == release_ids.present
        bitdepths == {item.bitdepth : item \in items}
        samplerates == {item.samplerate : item \in items}
        is_not_cd == max(bitdepths) > 16 \/ max(samplerates) # 44100
        could_be_cd == ~is_not_cd
        candidate_media_is_cd ==
            IF album_info.media # <<>>
            THEN Contains(CD, upper(album_info.media)) ELSE FALSE
        d0 == NewDistance
        d1 == IF is_not_cd /\ candidate_media_is_cd
              THEN DistAdd(d0, "media", config.media_weight) ELSE d0
        d2 == IF has_log /\ could_be_cd /\ ~candidate_media_is_cd
              THEN DistAdd(d1, "media", config.media_weight) ELSE d1
        d3 == IF album_info.album_id \notin release_ids.ids
              THEN DistAdd(d2, "album_id", config.album_id_weight) ELSE d2
    IN  d3

\* the scoring of album_distance once _process_items has returned release_ids
Score(items, album_info, config, release_ids) ==
    LET has_log == release_ids.present
        bitdepths == {item.bitdepth : item \in items}
        samplerates == {item.samplerate : item \in items}
        is_not_cd == max(bitdepths) > 16 \/ max(samplerates) # 44100
        could_be_cd == ~is_not_cd
        candidate_media_is_cd ==
            IF album_info.media # <<>>
            THEN Contains(CD, upper(album_info.media)) ELSE FALSE
        d0 == NewDistance
        d1 == IF is_not_cd /\ candidate_media_is_cd
              THEN DistAdd(d0, "media", config.media_weight) ELSE d0
        d2 == IF has_log /\ could_be_cd /\ ~candidate_media_is_cd
              THEN DistAdd(d1, "media", config.media_weight) ELSE d1
        d3 == IF release_ids.present /\ album_info.album_id \notin release_ids.ids
              THEN DistAdd(d2, "album_id", config.album_id_weight) ELSE d2
    IN  d3

\* ------------------------------------------------------------------------
\* State
\* ------------------------------------------------------------------------

VARIABLES
    lines,      \* the body of the log being parsed, as line ids
    pos,        \* lines readline() has consumed
    eof,        \* a readline() has returned ''
    tocPc,      \* where _get_toc_string_from_log is: header, records, listed, done
    entries,    \* the groupdicts yielded so far
    toc,        \* what _get_toc_string_from_log returned
    fs,         \* the files of each directory, in the order os.walk lists them
    _matches,   \* the module's dict: dirname -> MatchData
    walks,      \* os.walk calls made for each directory
    parsed,     \* for each directory, what _parse_logfile did with each file it was given
    pc,         \* the plugin: idle, returned (a handler has returned), hung, raised
    last        \* the handler call that returned last: arguments and results

tocVars == <<lines, pos, eof, tocPc, entries, toc>>

pluginVars == <<fs, _matches, walks, parsed, pc, last>>

vars == <<lines, pos, eof, tocPc, entries, toc, fs, _matches, walks, parsed, pc, last>>

BodiesUpTo(n) == UNION {[1..k -> LineIds] : k \in 0..n}

\* the inputs of the handlers
ItemCatalog ==
    {[path |-> <<"album", "01.flac">>, bitdepth |-> 16, samplerate |-> 44100],
     [path |-> <<"album", "02.flac">>, bitdepth |-> 24, samplerate |-> 44100],
     [path |-> <<"album/cd2", "01.flac">>, bitdepth |-> 16, samplerate |-> 44100],
     [path |-> <<"album/cd2", "02.flac">>, bitdepth |-> 16, samplerate |-> 48000]}

ItemSets == SUBSET ItemCatalog \ {{}}

MediaCD == <<"C","D">>

MediaEnhanced == <<"E","n","h","a","n","c","e","d"," ","c","d">>

MediaVinyl == <<"V","i","n","y","l">>

\* album_info.media is None or '' (<<>>) or a text; album_info.album_id
Candidates ==
    [media : {<<>>, MediaCD, MediaEnhanced, MediaVinyl}, album_id : {"rel-1", "rel-2"}]

\* self.config: the default weights and two others
DefaultConfig == [media_weight |-> 1, album_id_weight |-> 1]

Configs ==
    {DefaultConfig,
     [media_weight |-> 2, album_id_weight |-> 1],
     [media_weight |-> 0, album_id_weight |-> 2]}

\* the listings a directory is drawn from
DirCatalog ==
    {<<>>} \cup {<<id>> : id \in FileIds}
    \cup {<<"binary", "eac">>}

NoPrev == [valid |-> FALSE, config |-> DefaultConfig, dist |-> NewDistance]

NoCall ==
    [handler |-> "none", items |-> {}, album_info |-> [media |-> <<>>, album_id |-> ""],
     config |-> DefaultConfig, release_ids |-> None, releases |-> {},
     dist |-> NewDistance, prev |-> NoPrev]

\* the module just imported: _matches = {}
PluginStart ==
    /\ _matches = EmptyDict
    /\ walks = [d \in Dirs |-> 0]
    /\ parsed = [d \in Dirs |-> <<>>]
    /\ pc = "idle"
    /\ last = NoCall

\* _get_toc_string_from_log is called on a file handle positioned after the
\* first line
InitToc ==
    /\ lines \in BodiesUpTo(MaxLines)
    /\ pos = 0
    /\ eof = FALSE
    /\ tocPc = "header"
    /\ entries = <<>>
    /\ toc = TocNone
    /\ fs = [d \in Dirs |-> <<>>]
    /\ PluginStart

\* ScanHeader without the readline() that drops the line after the header
ScanHeader_KeepsNextLine ==
    /\ tocPc = "header"
    /\ LET r == Readline(lines, pos)
       IN  /\ pos' = r.pos
           /\ eof' = (eof \/ r.eof)
           /\ tocPc' = IF IsHeader(r.line) THEN "records" ELSE "header"
    /\ UNCHANGED <<lines, entries, toc>>
    /\ UNCHANGED pluginVars

\* one turn of the first loop of _filter_toc_entries
ScanHeader ==
    /\ tocPc = "header"
    /\ LET r == Readline(lines, pos)
       IN  IF IsHeader(r.line)
           THEN LET r2 == Readline(lines, r.pos)
                IN  /\ pos' = r2.pos
                    /\ eof' = (eof \/ r2.eof)
                    /\ tocPc' = "records"
           ELSE /\ pos' = r.pos
                /\ eof' = (eof \/ r.eof)
                /\ tocPc' = "header"
    /\ UNCHANGED <<lines, entries, toc>>
    /\ UNCHANGED pluginVars

\* one turn of the second loop of _filter_toc_entries
ReadRecord ==
    /\ tocPc = "records"
    /\ LET r == Readline(lines, pos)
           m == RecordOf(r.line)
       IN  /\ pos' = r.pos
           /\ eof' = (eof \/ r.eof)
           /\ IF m.matched
              THEN /\ entries' = Append(entries, GroupDict(m))
                   /\ tocPc' = "records"
              ELSE /\ entries' = entries
                   /\ tocPc' = "listed"
    /\ UNCHANGED <<lines, toc>>
    /\ UNCHANGED pluginVars

\* the rest of _get_toc_string_from_log, once list(...) has returned
Canonicalize ==
    /\ tocPc = "listed"
    /\ toc' = TocFromEntries(entries)
    /\ tocPc' = "done"
    /\ UNCHANGED <<lines, pos, eof, entries>>
    /\ UNCHANGED pluginVars

NextToc == ScanHeader \/ ReadRecord \/ Canonicalize

SpecToc == InitToc /\ [][NextToc]_vars

\* ------------------------------------------------------------------------
\* The plugin: the three handlers
\* ------------------------------------------------------------------------

Init ==
    /\ lines = <<>>
    /\ pos = 0
    /\ eof = FALSE
    /\ tocPc = "idle"
    /\ entries = <<>>
    /\ toc = TocNone
    /\ fs \in [Dirs -> DirCatalog]
    /\ PluginStart

\* the effect of a handler's call of _process_items, r, on the module state;
\* a call that hangs leaves the plugin hung and no handler returns; an
\* exception that leaves _process_items leaves the handler too
AfterProcess(r, call) ==
    /\ _matches' = r.matches
    /\ walks' = r.walks
    /\ parsed' = r.parsed
    /\ pc' = IF r.hang THEN "hung" ELSE IF r.raised THEN "raised" ELSE "returned"
    /\ last' = IF r.hang \/ r.raised THEN last ELSE call
    /\ UNCHANGED fs
    /\ UNCHANGED tocVars

\* GuessMedia.import_task_start
import_task_start(items, order) ==
    /\ pc = "idle"
    /\ \E r \in {_process_items(fs, order, _matches, walks, parsed)} :
          AfterProcess(r, [NoCall EXCEPT !.handler = "import_task_start",
                                         !.items = items,
                                         !.release_ids = r.ret])

\* GuessMedia.candidates; found: the ids hooks.album_for_mbid gives an album
\* for, the others give None or raise
candidates(items, order) ==
    /\ pc = "idle"
    /\ \E r \in {_process_items(fs, order, _matches, walks, parsed)} :
        \E found \in SUBSET {"rel-1", "rel-2"} :
          LET release_ids == r.ret
              releases == IF ~release_ids.present \/ release_ids.ids = {}
                          THEN {}
                          ELSE release_ids.ids \cap found
          IN  AfterProcess(r, [NoCall EXCEPT !.handler = "candidates",
                                             !.items = items,
                                             !.release_ids = release_ids,
                                             !.releases = releases])

\* GuessMedia.album_distance, for a candidate among infos under a
\* configuration among configs; prev: the call before it, when the host
\* scores the same items and candidate again
album_distance(items, order, infos, configs, prev) ==
    \E r \in {_process_items(fs, order, _matches, walks, parsed)} :
        \E album_info \in infos : \E config \in configs :
            LET release_ids == r.ret
                dist == Score(items, album_info, config, release_ids)
            IN  AfterProcess(r, [handler |-> "album_distance", items |-> items,
                                 album_info |-> album_info, config |-> config,
                                 release_ids |-> release_ids, releases |-> {},
                                 dist |-> dist, prev |-> prev])

ImportTaskStart ==
    \E items \in ItemSets : \E order \in Orders(PathsOf(items)) :
        import_task_start(items, order)

CandidatesCall ==
    \E items \in ItemSets : \E order \in Orders(PathsOf(items)) :
        candidates(items, order)

AlbumDistance ==
    /\ pc = "idle"
    /\ \E items \in ItemSets : \E order \in Orders(PathsOf(items)) :
        album_distance(items, order, Candidates, Configs, NoPrev)

\* the host raises media_weight and scores the same candidate again
AlbumDistanceAgain ==
    /\ pc = "returned"
    /\ last.handler = "album_distance"
    /\ ~last.prev.valid
    /\ \E order \in Orders(PathsOf(last.items)) :
        album_distance(last.items, order, {last.album_info},
                       {c \in Configs : c.media_weight > last.config.media_weight},
                       [valid |-> TRUE, config |-> last.config, dist |-> last.dist])

\* the host has used what the handler returned
HostContinues ==
    /\ pc = "returned"
    /\ pc' = "idle"
    /\ last' = NoCall
    /\ UNCHANGED <<fs, _matches, walks, parsed>>
    /\ UNCHANGED tocVars

Next ==
    \/ ImportTaskStart
    \/ CandidatesCall
    \/ AlbumDistance
    \/ AlbumDistanceAgain
    \/ HostContinues

Spec == Init /\ [][Next]_vars

\* ------------------------------------------------------------------------
\* Properties of the TOC parser and the TOC string (SpecToc)
\* ------------------------------------------------------------------------

\* text.split(" ")
RECURSIVE Split(_)
Split(text) ==
    LET k == SpanEnd(text, 1, Digits \cup TimeChars \cup {"-"})
    IN  IF k > Len(text) THEN <<text>>
        ELSE <<SubSeq(text, 1, k - 1)>> \o Split(SubSeq(text, k + 1, Len(text)))

\* s is the decimal numeral of a natural number: digits, no leading zero
IsNumeral(s) ==
    /\ Len(s) >= 1
    /\ \A i \in 1..Len(s) : s[i] \in Digits
    /\ (Len(s) > 1 => s[1] # "0")

\* the track numbers of the entries are 1, 2, ..., n in this order, n >= 1
Sequential(es) ==
    /\ Len(es) >= 1
    /\ \A i \in 1..Len(es) : int(es[i].num) = i

\* C1: for entries numbered 1..n (n >= 1), the returned string is the
\* space-joined decimal numerals of 1, n, the last end sector + 151, and
\* each start sector + 150, in this order.
C1_TocString ==
    (tocPc = "done" /\ Sequential(entries)) =>
        /\ toc.ret = "toc"
        /\ LET toks == Split(toc.text)
               n == Len(entries)
           IN  /\ Len(toks) = n + 3
               /\ \A i \in 1..Len(toks) : IsNumeral(toks[i])
               /\ int(toks[1]) = 1
               /\ int(toks[2]) = n
               /\ int(toks[3]) = int(entries[n].end_sector) + 151
               /\ \A i \in 1..n :
                      int(toks[3 + i]) = int(entries[i].start_sector) + 150

\* three records 1, 2, 3 with the last end sector 1000 give "1 3 1151 150 450 750"
C1_Witness ==
    /\ tocPc = "done"
    /\ Len(entries) = 3
    /\ toc = TocString(<<"1"," ","3"," ","1","1","5","1"," ","1","5","0"," ",
                         "4","5","0"," ","7","5","0">>)

\* C2: for entries whose track numbers are not 1..n in order (none at all,
\* a gap, a duplicate, out of order), the function returns None and no
\* exception reaches its caller.
C2_InvalidGivesNone ==
    (tocPc = "done" /\ ~Sequential(entries)) => toc = TocNone

\* a table with a header and no record: the IndexError is caught
C2_Witness ==
    /\ tocPc = "done"
    /\ entries = <<>>
    /\ toc = TocNone

\* the first header line of the body (0 if there is none)
FirstHeader(body) ==
    IF \E i \in 1..Len(body) : IsHeader(body[i])
    THEN CHOOSE i \in 1..Len(body) :
            IsHeader(body[i]) /\ \A j \in 1..(i - 1) : ~IsHeader(body[j])
    ELSE 0

\* the number of record lines in a row from line a on
RunLength(body, a) ==
    CHOOSE k \in 0..Len(body) :
        /\ \A j \in a..(a + k - 1) : j <= Len(body) /\ RecordOf(body[j]).matched
        /\ (a + k <= Len(body) => ~RecordOf(body[a + k]).matched)

\* C8: when no line matches the header pattern, the parser ends once the
\* source is read to its end, with no entry.
C8_HeaderlessTerminates ==
    (FirstHeader(lines) = 0 /\ eof) => (tocPc # "header" /\ entries = <<>>)

\* C10: after the first header line the next line is dropped, and the entries
\* are exactly the longest run of record lines that follows it; nothing after
\* the first non-record line, and nothing on the dropped line, is yielded.
C10_MaximalRun ==
    LET h == FirstHeader(lines)
        k == RunLength(lines, h + 2)
    IN  /\ (tocPc = "header" => entries = <<>>)
        /\ (tocPc = "records" =>
                /\ h > 0
                /\ pos >= h
                /\ Len(entries) <= k
                /\ entries = [i \in 1..Len(entries) |->
                                 GroupDict(RecordOf(lines[h + 1 + i]))])
        /\ (tocPc \in {"listed", "done"} =>
                /\ h > 0
                /\ entries = [i \in 1..k |-> GroupDict(RecordOf(lines[h + 1 + i]))])

\* header, a record on the dropped line, one record, a rule, one more record:
\* only the record between the dropped line and the rule is yielded
C10_Witness ==
    /\ tocPc = "done"
    /\ lines = <<1, 3, 4, 2, 5>>
    /\ entries = <<GroupDict(MatchRecord(Record2))>>

\* ------------------------------------------------------------------------
\* Properties of the cache and of the scoring (Spec)
\* ------------------------------------------------------------------------

EacSignature == <<"E","x","a","c","t"," ","A","u","d","i","o"," ","C","o","p","y">>

XldSignature == <<"X"," ","L","o","s","s","l","e","s","s"," ","D","e","c","o","d","e","r">>

\* the first line starts with one of the two ripper signature texts
Recognized(first) ==
    StartsWith(first, EacSignature) \/ StartsWith(first, XldSignature)

\* the name ends in .log, in any case
IsLogName(name) ==
    LET n == Len(name)
    IN  /\ n >= 4
        /\ name[n - 3] = "."
        /\ name[n - 2] \in {"l", "L"}
        /\ name[n - 1] \in {"o", "O"}
        /\ name[n] \in {"g", "G"}

\* the files under a directory, its subdirectory included, and the log files
\* among them
FilesUnder(d) == IF d = "album" THEN fs["album"] \o fs["album/cd2"] ELSE fs[d]

IsLogFile(id) == IsLogName(FileTable[id].name)

LogFilesUnder(d) == SelectSeq(FilesUnder(d), IsLogFile)

\* the evidence the cache m holds for a set of directories
Evidence(m, paths) ==
    IF \E p \in paths : m[p].has_log
    THEN IdSet(UNION {m[p].ids : p \in {q \in paths : m[q].has_log}})
    ELSE None

RECURSIVE SumSeq(_)
SumSeq(q) == IF q = <<>> THEN 0 ELSE Head(q) + SumSeq(Tail(q))

Scored == pc = "returned" /\ last.handler = "album_distance"

\* C3: a log with a recognized signature and a canonical TOC for which the
\* service finds no release is evidence: its directory has has_log, and
\* _process_items returns a set, not None, for items of that directory.
C3_UnmatchedLogIsEvidence ==
    \A d \in DOMAIN _matches :
        (\E k \in 1..Len(parsed[d]) :
            LET f == FileTable[parsed[d][k].file]
            IN  /\ f.encoding # "binary"
                /\ Recognized(f.first)
                /\ _get_toc_string_from_log(f.body).toc.ret = "toc"
                /\ f.service = "empty")
        => /\ _matches[d].has_log
           /\ (pc = "returned" /\ d \in PathsOf(last.items)
                  => last.release_ids.present)

\* the audio of the items rules out a CD: some item has more than 16 bits,
\* or the highest sample rate is not 44100
IsNotCd(items) ==
    \/ \E i \in items : i.bitdepth > 16
    \/ \E i \in items : i.samplerate > 44100
    \/ \A i \in items : i.samplerate < 44100

\* the medium text has the letters c, d in a row, in any case
CandidateIsCd(media) ==
    \E i \in 1..(Len(media) - 1) :
        media[i] \in {"c", "C"} /\ media[i + 1] \in {"d", "D"}

LogFound(items) == \E p \in PathsOf(items) : _matches[p].has_log

RuleA(call) == IsNotCd(call.items) /\ CandidateIsCd(call.album_info.media)

RuleB(call) ==
    /\ LogFound(call.items)
    /\ ~IsNotCd(call.items)
    /\ ~CandidateIsCd(call.album_info.media)

\* C4: album_distance adds media_weight to the media bucket exactly when rule
\* A or rule B holds; the two never hold together, so the bucket holds
\* nothing or media_weight once; and scoring the same input under a larger
\* media_weight never gives a smaller media penalty.
C4_MediaPenalty ==
    Scored =>
        /\ ~(RuleA(last) /\ RuleB(last))
        /\ last.dist.media =
              IF RuleA(last) \/ RuleB(last)
              THEN <<last.config.media_weight>> ELSE <<>>
        /\ (last.prev.valid /\ last.prev.config.media_weight <= last.config.media_weight
               => SumSeq(last.prev.dist.media) <= SumSeq(last.dist.media))

\* a candidate scored twice, the media penalty growing with media_weight
C4_Witness ==
    /\ Scored
    /\ last.prev.valid
    /\ RuleB(last)
    /\ last.prev.dist.media = <<1>>
    /\ last.dist.media = <<2>>

\* C5: album_distance adds album_id_weight to the album_id bucket iff the
\* evidence of the logs is a set (not None) that lacks the candidate's
\* release id; with no log file under the items' directories the evidence is
\* None and nothing is added, whatever the candidate's id.
C5_AlbumIdPenalty ==
    Scored =>
        /\ last.release_ids = Evidence(_matches, PathsOf(last.items))
        /\ last.dist.album_id =
              IF /\ last.release_ids.present
                 /\ last.album_info.album_id \notin last.release_ids.ids
              THEN <<last.config.album_id_weight>> ELSE <<>>
        /\ ((\A p \in PathsOf(last.items) : LogFilesUnder(p) = <<>>)
               => /\ last.release_ids = None
                  /\ last.dist.album_id = <<>>)

\* the log gives rel-1, the candidate is rel-2: the penalty is added
C5_Witness ==
    /\ Scored
    /\ last.release_ids = IdSet({"rel-1"})
    /\ last.album_info.album_id = "rel-2"
    /\ last.dist.album_id = <<last.config.album_id_weight>>
    /\ last.config.album_id_weight = 2

\* C6: a directory is walked, and its logs parsed, at most once, on the first
\* query for it; its entry in _matches, the entry (False, empty set) of a
\* directory without logs included, is never rewritten or removed, and a
\* query of directories all in _matches returns the evidence held there.
C6_WalkOnce ==
    [][\A d \in Dirs :
          /\ walks'[d] <= 1
          /\ (d \in DOMAIN _matches' => walks'[d] = 1)
          /\ (d \in DOMAIN _matches =>
                 /\ d \in DOMAIN _matches'
                 /\ _matches'[d] = _matches[d]
                 /\ walks'[d] = walks[d]
                 /\ parsed'[d] = parsed[d])
          /\ (d \in DOMAIN _matches' /\ LogFilesUnder(d) = <<>>
                 => _matches'[d] = MatchData(FALSE, {}))
          /\ (pc' = "returned" /\ PathsOf(last'.items) \subseteq DOMAIN _matches
                 => last'.release_ids = Evidence(_matches, PathsOf(last'.items)))
      ]_vars

\* the same items scored twice: each of their directories walked once
C6_Witness ==
    /\ Scored
    /\ last.prev.valid
    /\ \A d \in PathsOf(last.items) : d \in DOMAIN _matches /\ walks[d] = 1
    /\ \E d \in PathsOf(last.items) : LogFilesUnder(d) = <<>>

\* C7: a file whose first line does not start with a signature text is never
\* evidence, and neither the TOC parser nor the release lookup runs for it.
C7_UnsignedNeverParsed ==
    \A d \in Dirs : \A k \in 1..Len(parsed[d]) :
        LET e == parsed[d][k]
            f == FileTable[e.file]
        IN  (f.encoding # "binary" /\ ~Recognized(f.first)) =>
                /\ e.out.ret = "none"
                /\ ~e.out.tocCalled
                /\ ~e.out.lookupCalled

\* C9: no exception leaves _process_items because of a log file; a file that
\* raised gives no evidence; every log file of the directory is processed
\* and the directory's ids are those of the files that returned a set.
C9_ErrorsContained ==
    /\ pc # "raised"
    /\ \A d \in DOMAIN _matches :
          /\ [k \in 1..Len(parsed[d]) |-> parsed[d][k].file] = LogFilesUnder(d)
          /\ \A k \in 1..Len(parsed[d]) :
                parsed[d][k].out.exc # "" =>
                    parsed[d][k].out.ret = "none" /\ parsed[d][k].out.ids = {}
          /\ _matches[d].ids =
                UNION {parsed[d][k].out.ids :
                          k \in {j \in 1..Len(parsed[d]) : parsed[d][j].out.exc = ""}}

\* a file that cannot be decoded, then a good log in the same directory
C9_Witness ==
    /\ pc = "returned"
    /\ \E d \in DOMAIN _matches : \E k, j \in 1..Len(parsed[d]) :
          /\ k < j
          /\ parsed[d][k].out.exc # ""
          /\ parsed[d][j].out.ret = "set"
          /\ _matches[d].has_log
          /\ parsed[d][j].out.ids \subseteq _matches[d].ids

=============================================================================
